---- MODULE Spec2Model ----
(***************************************************************************)
(* Model of the RWA price aggregator's domain core:                        *)
(*   - Spread.calculate / Spread.is_below_threshold  (value object)        *)
(*   - PriceSnapshot.is_stale                         (entity)             *)
(*   - PriceCalculator.calculate_best_prices          (domain service)     *)
(*   - Alert.can_trigger / mark_triggered / pause / activate (entity)      *)
(*   - AlertPolicy.should_trigger                     (domain service)     *)
(*   - the alert-check cycle, the price-fetch cycle and the alert          *)
(*     endpoints that drive them                                           *)
(*   - PriceFeedRegistry.fetch_all_quotes             (infrastructure)     *)
(*   - GetAggregatedPricesUseCase.execute             (application)        *)
(*   - the seed script, SqlPriceRepository.save_batch and alert-check      *)
(*     cycles that overlap                            (infrastructure)     *)
(*                                                                         *)
(* Representation.                                                         *)
(*   Time is a integer number of clock ticks; an hour is TicksPerHour      *)
(*   ticks, so a tick is SecondsPerTick seconds.                           *)
(*   Prices are integers (multiples of a price quantum).                   *)
(*   A spread percentage is an integer number of 0.0001 % units, which is  *)
(*   the precision Spread.calculate quantizes to (20000 = 2.0000 %).       *)
(*   Optional[x] is a sequence: <<>> is None, <<x>> is the value x.        *)
(***************************************************************************)
EXTENDS Integers, Sequences, FiniteSets, TLC

\* ------------------------------------------------------------------ bounds
TicksPerHour == 2
MaxTime == 4
MaxFetchedAt == 1
MaxSnapshots == 2
MaxAlerts == 2
MaxCycleTime == 1
MaxFeeds == 3

\* ------------------------------------------------------- units and inputs
SecondsPerHour == 60 * 60
SecondsPerTick == SecondsPerHour \div TicksPerHour

None == <<>>
Some(x) == <<x>>

Prices == {0, 99, 100, 101}
DefaultMaxStaleness == 60
StalenessChoices == {DefaultMaxStaleness, SecondsPerTick}

VARIABLES
    now,                    \* datetime.now(timezone.utc), in ticks
    snapshots,              \* the list[PriceSnapshot] handed to the calculator
    max_staleness_seconds,  \* PriceCalculator._max_staleness_seconds
    best,                   \* last calculate_best_prices call and its result
    stale,                  \* last PriceSnapshot.is_stale call and its result
    alert,                  \* an Alert entity
    call,                   \* last can_trigger / should_trigger call on it
    marked,                 \* instant of the last mark_triggered call on it
    tokens,                 \* table tokens: row i is the token with id i
    alerts,                 \* table alerts: row i is the alert with id i
    price_rows,             \* table price_snapshots: latest row per venue
    dispatches,             \* per alert, the instants of its last two dispatches
    below_fires,            \* per alert: fires while the spread stayed below
    results,                \* summary returned by the alert-check cycle just run
    cycles,                 \* the alert-check cycles that run side by side
    request,                \* the alert request just handled
    response,               \* outcome of the alert request just handled
    feeds,                  \* the registered price feeds and what each one does
    fetched,                \* last fetch_all_quotes call and its result
    query,                  \* the input of the aggregated-prices use case
    venue_rows,             \* table venues: the row of each venue id, if any
    view,                   \* last execute call of the use case and its result
    spread                  \* last Spread.calculate call and its result

calcVars == <<snapshots, max_staleness_seconds, best, stale>>
alertVars == <<alert, call, marked>>
sysVars == <<tokens, alerts, price_rows, dispatches, below_fires, results,
            cycles, request, response>>
fetchVars == <<feeds, fetched>>
viewVars == <<query, venue_rows, view>>
spreadVars == <<spread>>
vars == <<now, calcVars, alertVars, sysVars, fetchVars, viewVars, spreadVars>>

\* ------------------------------------------------------------ value objects

\* Decimal.quantize(Decimal("0.0001")) under the default context rounding
\* (ROUND_HALF_EVEN): the integer nearest to n / d, ties to the even one.
RoundHalfEven(n, d) ==
    LET q == n \div d
        r == n % d
    IN  IF 2 * r < d THEN q
        ELSE IF 2 * r > d THEN q + 1
        ELSE IF q % 2 = 0 THEN q ELSE q + 1

\* mutant: a crossed pair of prices rejected as well
SpreadRaisesCrossed(bid, ask) == bid <= 0 \/ ask <= 0 \/ bid > ask

\* Spread.calculate raises ValueError
SpreadRaises(bid, ask) == bid <= 0 \/ ask <= 0

\* Spread.calculate: ((ask - bid) / mid) * 100 with mid = (bid + ask) / 2,
\* quantized to 4 decimals; the result is in units of 0.0001 %.
SpreadCalculate(bid, ask) ==
    RoundHalfEven((ask - bid) * 2 * 100 * 10000, bid + ask)

\* mutant: the comparison with the threshold made inclusive
IsBelowThresholdInclusive(percentage, threshold_pct) == percentage <= threshold_pct

\* Spread.is_below_threshold
IsBelowThreshold(percentage, threshold_pct) == percentage < threshold_pct

\* ------------------------------------------------------------ PriceSnapshot

\* mutant: a snapshot whose age equals the threshold counted as stale
IsStaleInclusive(s, max_age_seconds, t) ==
    (t - s.fetched_at) * SecondsPerTick >= max_age_seconds

\* PriceSnapshot.is_stale
IsStale(s, max_age_seconds, t) ==
    LET age == (t - s.fetched_at) * SecondsPerTick
    IN  age > max_age_seconds

\* ---------------------------------------------------------- PriceCalculator

\* mutant: the best bid taken as the lowest bid
RECURSIVE MinBidFold(_, _)
MinBidFold(seq, acc) ==
    IF seq = <<>> THEN acc
    ELSE MinBidFold(Tail(seq), IF Head(seq).bid < acc.bid THEN Head(seq) ELSE acc)

\* max(fresh_snapshots, key=lambda s: s.bid): the first maximal element
RECURSIVE MaxBidFold(_, _)
MaxBidFold(seq, acc) ==
    IF seq = <<>> THEN acc
    ELSE MaxBidFold(Tail(seq), IF Head(seq).bid > acc.bid THEN Head(seq) ELSE acc)

MaxByBid(seq) == MaxBidFold(Tail(seq), Head(seq))

\* mutant: the last minimal element taken on a tie
RECURSIVE MinAskFoldLast(_, _)
MinAskFoldLast(seq, acc) ==
    IF seq = <<>> THEN acc
    ELSE MinAskFoldLast(Tail(seq),
                        IF Head(seq).ask <= acc.ask THEN Head(seq) ELSE acc)

\* min(fresh_snapshots, key=lambda s: s.ask): the first minimal element
RECURSIVE MinAskFold(_, _)
MinAskFold(seq, acc) ==
    IF seq = <<>> THEN acc
    ELSE MinAskFold(Tail(seq), IF Head(seq).ask < acc.ask THEN Head(seq) ELSE acc)

MinByAsk(seq) == MinAskFold(Tail(seq), Head(seq))

\* mutant: the staleness filter left out
AllSnapshots(snaps, max_age_seconds, t) == snaps

\* mutant: a snapshot with a non-positive price skipped silently
FreshValidSnapshots(snaps, max_age_seconds, t) ==
    SelectSeq(snaps, LAMBDA s : ~IsStale(s, max_age_seconds, t)
                                /\ s.bid > 0 /\ s.ask > 0)

\* the list comprehension of calculate_best_prices
FreshSnapshots(snaps, max_age_seconds, t) ==
    SelectSeq(snaps, LAMBDA s : ~IsStale(s, max_age_seconds, t))

\* PriceCalculator.calculate_best_prices.  raised = "ValueError" stands for
\* the exception of Spread.calculate leaving the call (no BestPrices).
CalculateBestPrices(snaps, max_age_seconds, t) ==
    LET fresh_snapshots == FreshSnapshots(snaps, max_age_seconds, t)
    IN  IF fresh_snapshots = <<>>
        THEN [raised |-> "none", best_bid |-> None, best_ask |-> None,
              effective_spread |-> None, venues_count |-> 0]
        ELSE LET best_bid == MaxByBid(fresh_snapshots)
                 best_ask == MinByAsk(fresh_snapshots)
             IN  IF SpreadRaises(best_bid.bid, best_ask.ask)
                 THEN [raised |-> "ValueError", best_bid |-> None,
                       best_ask |-> None, effective_spread |-> None,
                       venues_count |-> 0]
                 ELSE [raised |-> "none",
                       best_bid |-> Some(best_bid),
                       best_ask |-> Some(best_ask),
                       effective_spread |->
                           Some(SpreadCalculate(best_bid.bid, best_ask.ask)),
                       venues_count |-> Len(fresh_snapshots)]

\* -------------------------------------------------------------------- Alert

\* mutant: the cooldown ending at, instead of after, cooldown_end
CanTriggerAtBoundary(a, t) ==
    IF a.status # "ACTIVE" THEN FALSE
    ELSE IF a.last_triggered_at = None THEN TRUE
    ELSE t >= a.last_triggered_at[1] + a.cooldown_hours * TicksPerHour

\* Alert.can_trigger
CanTrigger(a, t) ==
    IF a.status # "ACTIVE" THEN FALSE
    ELSE IF a.last_triggered_at = None THEN TRUE
    ELSE LET cooldown_end == a.last_triggered_at[1] + a.cooldown_hours * TicksPerHour
         IN  t > cooldown_end

\* mutant: mark_triggered that records nothing
MarkTriggeredNoop(a, t) == a

\* Alert.mark_triggered
MarkTriggered(a, t) == [a EXCEPT !.last_triggered_at = Some(t)]

\* mutant: pause that also forgets the last trigger
PauseForgetsTrigger(a) == [a EXCEPT !.status = "PAUSED", !.last_triggered_at = None]

\* Alert.pause
Pause(a) == [a EXCEPT !.status = "PAUSED"]

\* Alert.activate
Activate(a) == [a EXCEPT !.status = "ACTIVE"]

\* -------------------------------------------------------------- AlertPolicy

\* mutant: the eligibility check of should_trigger left out
ShouldTriggerNoGate(a, current_spread, previous_spread, t) ==
    LET is_below_now == current_spread < a.threshold_pct
    IN  IF previous_spread = None THEN is_below_now
        ELSE is_below_now /\ ~(previous_spread[1] < a.threshold_pct)

\* mutant: the crossing check of should_trigger left out
ShouldTriggerNoCrossing(a, current_spread, previous_spread, t) ==
    IF a.status # "ACTIVE" THEN FALSE
    ELSE IF a.last_triggered_at # None
            /\ ~(t > a.last_triggered_at[1] + a.cooldown_hours * TicksPerHour)
    THEN FALSE
    ELSE current_spread < a.threshold_pct

\* AlertPolicy.should_trigger; previous_spread is an Optional[Spread]
ShouldTrigger(a, current_spread, previous_spread, t) ==
    IF ~CanTrigger(a, t) THEN FALSE
    ELSE LET threshold == a.threshold_pct
             is_below_now == IsBelowThreshold(current_spread, threshold)
         IN  IF previous_spread = None THEN is_below_now
             ELSE LET was_at_or_above ==
                          ~IsBelowThreshold(previous_spread[1], threshold)
                  IN  is_below_now /\ was_at_or_above

\* ================================================================ SpecCalc
\* The calculator applied to every bounded snapshot list at every instant.

\* the prices of the calculator's inputs: a non-positive one and two others
CalcPrices == {0, 100, 101}

\* a snapshot of venue v carrying quote q
PriceSnapshot(v, q) ==
    [venue_id |-> v, bid |-> q.bid, ask |-> q.ask, fetched_at |-> q.fetched_at]

Quotes == [bid : CalcPrices, ask : CalcPrices, fetched_at : 0..MaxFetchedAt]

\* the latest snapshot of each venue is one snapshot per venue, the venues
\* in either order
VenueOrders(n) == {[i \in 1..n |-> i], [i \in 1..n |-> n + 1 - i]}

SnapshotListsOf(quotes) ==
    UNION {{[i \in 1..n |-> PriceSnapshot(o[i], q[i])] :
                o \in VenueOrders(n), q \in [1..n -> quotes]}
           : n \in 0..MaxSnapshots}

SnapshotLists == SnapshotListsOf(Quotes)

\* values of the variables a specification does not use
IdleAlert == [id |-> 0, token_id |-> 0, threshold_pct |-> 0, status |-> "DELETED",
              last_triggered_at |-> None, cooldown_hours |-> 0]
NoPolicyCall == [op |-> "none", current |-> 0, previous |-> None, result |-> FALSE]

\* the seeded token table (one TRADABLE and one NAV_ONLY token)
Tokens ==
    <<[id |-> 1, symbol |-> "USDY", market_type |-> "TRADABLE", is_active |-> TRUE],
      [id |-> 2, symbol |-> "OUSG", market_type |-> "NAV_ONLY", is_active |-> TRUE]>>

TokenIds == 1..Len(Tokens)

NoResults == [alerts_checked |-> 0, alerts_triggered |-> 0, emails_sent |-> 0,
              errors |-> <<>>, timestamp |-> None]
\* an alert-check cycle that is not running: nothing loaded, nothing to save
IdleCycle == [pc |-> "idle", todo |-> <<>>, pending |-> <<>>, fired |-> {},
              results |-> NoResults]
NoCycles == [c \in 1..2 |-> IdleCycle]
NoRequest == [symbol |-> "", email |-> "", alert_id |-> 0]
NoResponse == [op |-> "none", outcome |-> "none", id |-> 0, status_code |-> 0]
Venues == {1, 2}
NoFetch == [called |-> FALSE, quotes |-> <<>>]
NoQuery == [symbol |-> "", include_stale |-> FALSE]
NoBestPriceDto == [best_bid_venue |-> None, best_bid_venue_id |-> None,
                   best_ask_venue |-> None, best_ask_venue_id |-> None]
NoView == [called |-> FALSE, outcome |-> "none", price_reads |-> 0,
           best_prices |-> NoBestPriceDto,
           venues |-> <<>>, num_venues |-> 0, num_fresh_venues |-> 0,
           at_build |-> 0, at_count |-> 0]
NoSpread == [called |-> FALSE, bid |-> 0, ask |-> 0, raised |-> "none",
             percentage |-> None]
IdleSys ==
    /\ tokens = Tokens
    /\ alerts = <<>>
    /\ price_rows = [t \in 1..2 |-> [v \in Venues |-> None]]
    /\ dispatches = [i \in 1..MaxAlerts |-> <<>>]
    /\ below_fires = [i \in 1..MaxAlerts |-> 0]
    /\ results = NoResults
    /\ cycles = NoCycles
    /\ request = NoRequest
    /\ response = NoResponse
IdleFetch == feeds = <<>> /\ fetched = NoFetch
IdleView == query = NoQuery /\ venue_rows = <<>> /\ view = NoView
IdleSpread == spread = NoSpread

NoCall == [called |-> FALSE, at |-> 0, result |-> CalculateBestPrices(<<>>, 0, 0)]
NoStale == [called |-> FALSE, at |-> 0, idx |-> 0, max_age_seconds |-> 0,
            result |-> FALSE]

InitCalc ==
    /\ now = 0
    /\ snapshots \in SnapshotLists
    /\ max_staleness_seconds \in StalenessChoices
    /\ best = NoCall
    /\ stale = NoStale
    /\ alert = IdleAlert /\ call = NoPolicyCall /\ marked = None
    /\ IdleSys /\ IdleFetch /\ IdleView /\ IdleSpread

\* calculator.calculate_best_prices(snapshots)
Calculate ==
    /\ best' = [called |-> TRUE, at |-> now,
                result |-> CalculateBestPrices(snapshots, max_staleness_seconds, now)]
    /\ UNCHANGED <<now, snapshots, max_staleness_seconds, stale, alertVars,
                   sysVars, fetchVars, viewVars, spreadVars>>

\* snapshots[i].is_stale(self._max_staleness_seconds)
CheckStale ==
    \E i \in 1..Len(snapshots) :
        LET m == max_staleness_seconds IN
        /\ stale' = [called |-> TRUE, at |-> now, idx |-> i, max_age_seconds |-> m,
                     result |-> IsStale(snapshots[i], m, now)]
        /\ UNCHANGED <<now, snapshots, max_staleness_seconds, best, alertVars,
                       sysVars, fetchVars, viewVars, spreadVars>>

\* the wall clock advances; the results of the earlier calls are dropped, so
\* that a recorded result is always the result of a call made at `now'
Tick ==
    /\ now < MaxTime
    /\ now' = now + 1
    /\ best' = NoCall
    /\ stale' = NoStale
    /\ UNCHANGED <<snapshots, max_staleness_seconds, alertVars,
                   sysVars, fetchVars, viewVars, spreadVars>>

NextCalc == Calculate \/ CheckStale \/ Tick

SpecCalc == InitCalc /\ [][NextCalc]_vars

\* ------------------------------------------------- claims on the calculator

\* age in seconds of snapshot s at instant t
AgeSeconds(s, t) == (t - s.fetched_at) * SecondsPerTick

\* the fresh part of the calculator's input at the instant of the last call
FreshIdx == {i \in 1..Len(snapshots) :
                AgeSeconds(snapshots[i], best.at) <= max_staleness_seconds}

Returned == best.called /\ best.result.raised = "none"

\* C1: whenever calculate_best_prices returns for a list with at least one
\* fresh snapshot, best_bid is a fresh snapshot of the list whose bid is the
\* maximum bid over the fresh snapshots and best_ask is a fresh snapshot whose
\* ask is the minimum ask over the fresh snapshots; a stale snapshot is never
\* selected, and the two may be snapshots of different venues.
C1_BestBidAsk ==
    (Returned /\ FreshIdx # {}) =>
        /\ \E i \in FreshIdx :
              /\ best.result.best_bid = Some(snapshots[i])
              /\ \A j \in FreshIdx : snapshots[j].bid <= snapshots[i].bid
        /\ \E i \in FreshIdx :
              /\ best.result.best_ask = Some(snapshots[i])
              /\ \A j \in FreshIdx : snapshots[j].ask >= snapshots[i].ask

\* a call where the best bid and the best ask are snapshots of different
\* venues, neither venue offering both
C1_Witness ==
    /\ Returned /\ Cardinality(FreshIdx) = 2
    /\ best.result.best_bid[1].venue_id # best.result.best_ask[1].venue_id
    /\ best.result.best_bid[1].bid > best.result.best_ask[1].bid
    /\ best.result.best_ask[1].ask < best.result.best_bid[1].ask

\* the first position of the input list among the positions in idx
FirstOf(idx) == CHOOSE i \in idx : \A j \in idx : i <= j

\* the fresh positions that share the maximum bid, and the minimum ask
MaxBidIdx == {i \in FreshIdx : \A j \in FreshIdx : snapshots[j].bid <= snapshots[i].bid}
MinAskIdx == {i \in FreshIdx : \A j \in FreshIdx : snapshots[j].ask >= snapshots[i].ask}

\* C30: when several fresh snapshots share the maximum bid (or the minimum
\* ask), calculate_best_prices selects the one that comes first in the input
\* list; the venues it returns are therefore fixed by the input list, its
\* order and the instant of the call.
C30_FirstOnTie ==
    (Returned /\ FreshIdx # {}) =>
        /\ best.result.best_bid = Some(snapshots[FirstOf(MaxBidIdx)])
        /\ best.result.best_ask = Some(snapshots[FirstOf(MinAskIdx)])

\* a call on a list that starts with venue 2, two fresh snapshots sharing the
\* maximum bid and the minimum ask: venue 2 is returned for both
C30_Witness ==
    /\ Returned
    /\ Len(snapshots) = 2
    /\ snapshots[1].venue_id = 2 /\ snapshots[2].venue_id = 1
    /\ MaxBidIdx = {1, 2} /\ MinAskIdx = {1, 2}
    /\ best.result.best_bid[1].venue_id = 2
    /\ best.result.best_ask[1].venue_id = 2

\* C2: when every snapshot of the list is older than max_staleness_seconds
\* (the empty list included), calculate_best_prices returns best_bid = None,
\* best_ask = None, effective_spread = None and venues_count = 0.
C2_AllStale ==
    (best.called /\ FreshIdx = {}) =>
        /\ best.result.raised = "none"
        /\ best.result.best_bid = None
        /\ best.result.best_ask = None
        /\ best.result.effective_spread = None
        /\ best.result.venues_count = 0

\* a call on a non-empty list all of whose snapshots are stale
C2_Witness ==
    /\ best.called /\ FreshIdx = {} /\ Len(snapshots) > 0
    /\ best.result.venues_count = 0

MaxFreshBid == CHOOSE b \in {snapshots[i].bid : i \in FreshIdx} :
                   \A i \in FreshIdx : snapshots[i].bid <= b
MinFreshAsk == CHOOSE a \in {snapshots[i].ask : i \in FreshIdx} :
                   \A i \in FreshIdx : snapshots[i].ask >= a

\* C16: a call of calculate_best_prices on a list with a fresh snapshot
\* fails with the validation error exactly when the highest fresh bid or the
\* lowest fresh ask is <= 0, and then returns no BestPrices; when it does not
\* fail and the highest bid is above the lowest ask, the effective spread of
\* the result is negative.
C16_ValidationPropagates ==
    (best.called /\ FreshIdx # {}) =>
        /\ best.result.raised = "ValueError"
               <=> (MaxFreshBid <= 0 \/ MinFreshAsk <= 0)
        /\ best.result.raised = "ValueError" =>
               /\ best.result.best_bid = None /\ best.result.best_ask = None
               /\ best.result.effective_spread = None
        /\ (best.result.raised = "none" /\ MaxFreshBid > MinFreshAsk) =>
               /\ best.result.effective_spread # None
               /\ best.result.effective_spread[1] < 0

\* the call failed although another fresh snapshot of the list has a
\* positive bid and a positive ask
C16_Witness ==
    /\ best.called /\ best.result.raised = "ValueError"
    /\ \E i \in FreshIdx : snapshots[i].bid > 0 /\ snapshots[i].ask > 0

\* =============================================================== SpecSpread
\* Spread.calculate applied to every pair of bounded prices.

SpreadInputs == {-100, -1, 0, 1, 99, 100, 101, 200}

InitSpread ==
    /\ now = 0
    /\ spread \in [called : {FALSE}, bid : SpreadInputs, ask : SpreadInputs,
                    raised : {"none"}, percentage : {None}]
    /\ snapshots = <<>> /\ max_staleness_seconds = DefaultMaxStaleness
    /\ best = NoCall /\ stale = NoStale
    /\ alert = IdleAlert /\ call = NoPolicyCall /\ marked = None
    /\ IdleSys /\ IdleFetch /\ IdleView

\* Spread.calculate(bid, ask)
CallSpreadCalculate ==
    /\ ~spread.called
    /\ spread' = IF SpreadRaises(spread.bid, spread.ask)
                 THEN [spread EXCEPT !.called = TRUE, !.raised = "ValueError"]
                 ELSE [spread EXCEPT !.called = TRUE,
                           !.percentage = Some(SpreadCalculate(spread.bid, spread.ask))]
    /\ UNCHANGED <<now, calcVars, alertVars, sysVars, fetchVars, viewVars>>

NextSpread == CallSpreadCalculate

SpecSpread == InitSpread /\ [][NextSpread]_vars

\* C15: Spread.calculate(bid, ask) raises the validation error exactly when
\* bid <= 0 or ask <= 0; for positive prices with bid > ask it returns a
\* Spread with a negative percentage, and with bid = ask percentage 0.
C15_SpreadValidation ==
    spread.called =>
        /\ spread.raised = "ValueError" <=> (spread.bid <= 0 \/ spread.ask <= 0)
        /\ spread.raised = "none" <=> spread.percentage # None
        /\ (spread.raised = "none" /\ spread.bid > spread.ask)
               => spread.percentage[1] < 0
        /\ (spread.raised = "none" /\ spread.bid = spread.ask)
               => spread.percentage[1] = 0

\* a crossed pair of positive prices returns a negative percentage
C15_Witness ==
    /\ spread.called /\ spread.raised = "none"
    /\ spread.bid > spread.ask /\ spread.percentage[1] < 0

\* =============================================================== SpecAlert
\* One Alert entity, its mutation methods and the policy applied to it.

ThresholdChoices == {10000, 20000}      \* 1.00 % and 2.00 %
CooldownChoices == {0, 1}               \* hours
SpreadValues == {SpreadCalculate(b, a) : b, a \in Prices \ {0}}

InitAlert ==
    /\ now = 0
    /\ alert \in [id : {1}, token_id : {1}, threshold_pct : ThresholdChoices,
                  status : {"ACTIVE", "PAUSED", "DELETED"},
                  last_triggered_at : {None}, cooldown_hours : CooldownChoices]
    /\ call = NoPolicyCall
    /\ marked = None
    /\ snapshots = <<>> /\ max_staleness_seconds = DefaultMaxStaleness
    /\ best = NoCall /\ stale = NoStale
    /\ IdleSys /\ IdleFetch /\ IdleView /\ IdleSpread

\* alert.can_trigger()
CallCanTrigger ==
    /\ call' = [op |-> "can_trigger", current |-> 0, previous |-> None,
                result |-> CanTrigger(alert, now)]
    /\ UNCHANGED <<now, alert, marked, calcVars, sysVars,
                   fetchVars, viewVars, spreadVars>>

\* policy.should_trigger(alert, current_spread, previous_spread)
CallShouldTrigger ==
    \E c \in SpreadValues, p \in {None} \cup {Some(x) : x \in SpreadValues} :
        /\ call' = [op |-> "should_trigger", current |-> c, previous |-> p,
                    result |-> ShouldTrigger(alert, c, p, now)]
        /\ UNCHANGED <<now, alert, marked, calcVars, sysVars,
                       fetchVars, viewVars, spreadVars>>

\* alert.mark_triggered()
DoMarkTriggered ==
    /\ alert' = MarkTriggered(alert, now)
    /\ marked' = Some(now)
    /\ call' = NoPolicyCall
    /\ UNCHANGED <<now, calcVars, sysVars, fetchVars, viewVars, spreadVars>>

\* alert.pause()
DoPause ==
    /\ alert' = Pause(alert)
    /\ call' = NoPolicyCall
    /\ UNCHANGED <<now, marked, calcVars, sysVars, fetchVars, viewVars, spreadVars>>

\* alert.activate()
DoActivate ==
    /\ alert' = Activate(alert)
    /\ call' = NoPolicyCall
    /\ UNCHANGED <<now, marked, calcVars, sysVars, fetchVars, viewVars, spreadVars>>

\* the wall clock advances; a recorded result is always one of a call at `now'
AlertTick ==
    /\ now < MaxTime
    /\ now' = now + 1
    /\ call' = NoPolicyCall
    /\ UNCHANGED <<alert, marked, calcVars, sysVars, fetchVars, viewVars, spreadVars>>

NextAlert ==
    \/ CallCanTrigger \/ CallShouldTrigger \/ DoMarkTriggered
    \/ DoPause \/ DoActivate \/ AlertTick

SpecAlert == InitAlert /\ [][NextAlert]_vars

\* ------------------------------------------- claims on the alert and policy

\* eligibility as the specification states it
Eligible ==
    /\ alert.status = "ACTIVE"
    /\ \/ alert.last_triggered_at = None
       \/ now > alert.last_triggered_at[1] + alert.cooldown_hours * TicksPerHour

\* C4: should_trigger returns false whenever the alert is not eligible (status
\* not ACTIVE, or inside the cooldown window), whatever the two spreads are.
C4_IneligibleNeverTriggers ==
    (call.op = "should_trigger" /\ ~Eligible) => call.result = FALSE

\* an ACTIVE alert inside its cooldown, asked with a crossing that would fire
C4_Witness ==
    /\ call.op = "should_trigger" /\ ~call.result
    /\ alert.status = "ACTIVE" /\ alert.last_triggered_at # None
    /\ call.current < alert.threshold_pct
    /\ call.previous # None /\ call.previous[1] >= alert.threshold_pct

\* C5: for an eligible alert and previous_spread = None, should_trigger
\* returns exactly current_spread.percentage < threshold_pct (strict).
C5_FirstEvaluation ==
    (call.op = "should_trigger" /\ Eligible /\ call.previous = None) =>
        (call.result <=> call.current < alert.threshold_pct)

\* a spread exactly at the threshold does not trigger
C5_Witness ==
    /\ call.op = "should_trigger" /\ Eligible /\ call.previous = None
    /\ call.current = alert.threshold_pct /\ ~call.result

\* C6: for an eligible alert and a previous spread, should_trigger returns
\* true exactly when the current spread is below the threshold and the
\* previous one was at or above it; both below gives false.
C6_Crossing ==
    (call.op = "should_trigger" /\ Eligible /\ call.previous # None) =>
        (call.result <=> (call.current < alert.threshold_pct
                          /\ call.previous[1] >= alert.threshold_pct))

\* a crossing from exactly the threshold fires
C6_Witness ==
    /\ call.op = "should_trigger" /\ Eligible /\ call.previous # None
    /\ call.previous[1] = alert.threshold_pct
    /\ call.current < alert.threshold_pct /\ call.result

\* C7: can_trigger() is true iff status = ACTIVE and (last_triggered_at is
\* None or now > last_triggered_at + cooldown_hours); at exactly
\* last_triggered_at + cooldown_hours it is false.
C7_CanTrigger ==
    call.op = "can_trigger" =>
        (call.result <=>
            /\ alert.status = "ACTIVE"
            /\ \/ alert.last_triggered_at = None
               \/ now > alert.last_triggered_at[1]
                          + alert.cooldown_hours * TicksPerHour)

\* asked exactly at the end of a non-empty cooldown: still false
C7_Witness ==
    /\ call.op = "can_trigger" /\ ~call.result
    /\ alert.status = "ACTIVE" /\ alert.cooldown_hours > 0
    /\ alert.last_triggered_at # None
    /\ now = alert.last_triggered_at[1] + alert.cooldown_hours * TicksPerHour

\* C8: for an ACTIVE alert with cooldown_hours > 0 on which mark_triggered()
\* was called, can_trigger() is false from the instant of that call until the
\* clock is past that instant + cooldown_hours, and true afterwards.
C8_CooldownAfterMark ==
    (call.op = "can_trigger" /\ alert.status = "ACTIVE"
        /\ alert.cooldown_hours > 0 /\ marked # None) =>
        (call.result <=> now > marked[1] + alert.cooldown_hours * TicksPerHour)

\* the cooldown of a marked alert has run out and can_trigger() is true again
C8_Witness ==
    /\ call.op = "can_trigger" /\ call.result
    /\ alert.cooldown_hours > 0 /\ marked # None

\* ================================================================ SpecFetch
\* PriceFeedRegistry.fetch_all_quotes applied to every bounded registry.

\* what one feed does when its fetch_quote is awaited: it returns a quote,
\* returns None, raises, or has not finished when the timeout elapses
FeedKinds == {"quote", "none", "error", "pending"}
FeedQuote == [bid |-> 100, ask |-> 101]

\* the registered feeds: feed i is the feed of venue i
FeedLists ==
    UNION {{[i \in 1..n |-> [venue |-> i, supports |-> sup[i], kind |-> k[i],
                             bid |-> FeedQuote.bid, ask |-> FeedQuote.ask]] :
                sup \in [1..n -> BOOLEAN], k \in [1..n -> FeedKinds]}
           : n \in 0..MaxFeeds}

\* get_feeds_for_token
GetFeedsForToken(registry) == SelectSeq(registry, LAMBDA f : f.supports)

\* fetch_with_error_handling: the value of the task of feed f once finished
FetchWithErrorHandling(f) ==
    IF f.kind = "quote"
    THEN Some([venue |-> f.venue, bid |-> f.bid, ask |-> f.ask])
    ELSE None

\* asyncio.wait_for(asyncio.gather(*tasks), timeout): the list of the task
\* values, or TimeoutError as soon as one task is unfinished at the timeout
GatherTimesOut(fs) == \E i \in 1..Len(fs) : fs[i].kind = "pending"

RECURSIVE NotNone(_)
NotNone(rs) ==
    IF rs = <<>> THEN <<>>
    ELSE (IF Head(rs) = None THEN <<>> ELSE <<Head(rs)[1]>>) \o NotNone(Tail(rs))

\* fetch_all_quotes(token_symbol)
FetchAllQuotes(registry) ==
    LET fs == GetFeedsForToken(registry)
        gathered == IF GatherTimesOut(fs) THEN <<>>
                    ELSE [i \in 1..Len(fs) |-> FetchWithErrorHandling(fs[i])]
    IN  IF fs = <<>> THEN <<>> ELSE NotNone(gathered)

InitFetch ==
    /\ now = 0
    /\ feeds \in FeedLists
    /\ fetched = NoFetch
    /\ snapshots = <<>> /\ max_staleness_seconds = DefaultMaxStaleness
    /\ best = NoCall /\ stale = NoStale
    /\ alert = IdleAlert /\ call = NoPolicyCall /\ marked = None
    /\ IdleSys /\ IdleView /\ IdleSpread

\* registry.fetch_all_quotes(token.symbol)
CallFetchAllQuotes ==
    /\ fetched' = [called |-> TRUE, quotes |-> FetchAllQuotes(feeds)]
    /\ UNCHANGED <<now, feeds, calcVars, alertVars, sysVars, viewVars, spreadVars>>

NextFetch == CallFetchAllQuotes

SpecFetch == InitFetch /\ [][NextFetch]_vars

\* ------------------------------------------------ claims on fetch_all_quotes

\* the quote feed i of the registry returned
QuoteOfFeed(i) == [venue |-> feeds[i].venue, bid |-> feeds[i].bid,
                   ask |-> feeds[i].ask]

Returns(q) == \E k \in 1..Len(fetched.quotes) : fetched.quotes[k] = q

\* the feeds that support the token and returned a quote
Responded == {i \in 1..Len(feeds) : feeds[i].supports /\ feeds[i].kind = "quote"}

\* C13: when a feed that supports the token raises or returns None, the call
\* returns no quote of that feed and returns the quote of every other feed
\* that supports the token and returned one.
C13_ErrorIsolation ==
    fetched.called =>
        \A j \in 1..Len(feeds) :
            (feeds[j].supports /\ feeds[j].kind \in {"none", "error"}) =>
                /\ ~Returns(QuoteOfFeed(j))
                /\ \A i \in Responded : Returns(QuoteOfFeed(i))

\* C14: when the timeout elapses with some fetch unfinished, the call still
\* returns the quote of every feed that had already returned one.
C14_TimeoutKeepsResponded ==
    (fetched.called /\ GatherTimesOut(GetFeedsForToken(feeds))) =>
        \A i \in Responded : Returns(QuoteOfFeed(i))

\* ==================================================================== Spec
\* The running system: alert requests, price-fetch cycles and alert-check
\* cycles over the alert and price tables, one after the other.

\* the fields class Settings declares
SettingsFields ==
    {"app_env", "debug", "secret_key", "database_url", "redis_url",
     "celery_broker_url", "celery_result_backend", "price_poll_interval_seconds",
     "staleness_threshold_seconds", "alert_cooldown_minutes",
     "alert_check_interval_seconds", "kraken_api_key", "kraken_api_secret",
     "coinbase_api_key", "coinbase_api_secret", "eth_rpc_url",
     "thegraph_api_key", "sendgrid_api_key", "alert_from_email"}

\* Settings.staleness_threshold_seconds
StalenessThresholdSeconds == 300

VenueOrder == <<1, 2>>

\* str.upper() on the symbols the requests use
Upper(symbol) == IF symbol = "usdy" THEN "USDY" ELSE symbol

\* SqlTokenRepository.get_by_symbol
GetBySymbol(symbol) ==
    LET hits == SelectSeq(tokens, LAMBDA t : t.symbol = Upper(symbol))
    IN  IF hits = <<>> THEN None ELSE Some(Head(hits))

\* SqlTokenRepository.get_by_id
GetTokenById(token_id) ==
    LET hits == SelectSeq(tokens, LAMBDA t : t.id = token_id)
    IN  IF hits = <<>> THEN None ELSE Some(Head(hits))

\* EmailAddress.__post_init__ accepts the address
EmailMatches(email) == email \in {"a@b.co"}

\* SqlPriceRepository.get_latest_for_token: the latest row of every venue
\* that has a row for the token
RECURSIVE LatestRows(_, _, _)
LatestRows(rows, token_id, order) ==
    IF order = <<>> THEN <<>>
    ELSE LET v == Head(order)
             rest == LatestRows(rows, token_id, Tail(order))
         IN  IF rows[token_id][v] = None THEN rest
             ELSE <<rows[token_id][v][1]>> \o rest

GetLatestForToken(rows, token_id) == LatestRows(rows, token_id, VenueOrder)

\* SqlAlertRepository.get_all_active: the ids of the ACTIVE rows, in id order
GetAllActive(tbl) ==
    SelectSeq([i \in 1..Len(tbl) |-> i], LAMBDA i : tbl[i].status = "ACTIVE")

\* SqlAlertRepository.save of an alert that has an id
SaveAlert(tbl, a) ==
    [tbl EXCEPT ![a.id] = [@ EXCEPT !.token_id = a.token_id,
                                    !.threshold_pct = a.threshold_pct,
                                    !.status = a.status,
                                    !.last_triggered_at = a.last_triggered_at,
                                    !.cooldown_hours = a.cooldown_hours]]

\* _send_alert_email: "sent" is return True, "failed" is return False and
\* "AttributeError" is the exception of reading an attribute that Settings
\* does not declare, raised before the try block and leaving the function.
SendOutcomes ==
    IF "postmark_api_token" \in SettingsFields
    THEN {"sent", "failed"}
    ELSE {"AttributeError"}

\* the body of the for loop of _check_alerts_async for one alert; send is the
\* outcome _send_alert_email has if it is called
EvaluateAlert(a, rows, t, send) ==
    LET token == GetTokenById(a.token_id)
    IN  IF token = None THEN "no_token"
        ELSE IF token[1].market_type = "NAV_ONLY" THEN "nav_only"
        ELSE LET snaps == GetLatestForToken(rows, a.token_id)
             IN  IF snaps = <<>> THEN "no_data"
                 ELSE LET best_prices ==
                              CalculateBestPrices(snaps, StalenessThresholdSeconds, t)
                      IN  IF best_prices.raised # "none" THEN "ValueError"
                          ELSE IF best_prices.effective_spread = None THEN "no_fresh"
                          ELSE IF ShouldTrigger(a, best_prices.effective_spread[1],
                                                None, t)
                               THEN send
                               ELSE "not_triggered"

Dispatched(outcome) == outcome \in {"sent", "failed", "AttributeError"}
Triggered(outcome) == outcome \in {"sent", "failed"}
\* the evaluation left the try block through an exception
IsException(outcome) == outcome \in {"ValueError", "AttributeError"}

\* the alerts the for loop goes on with after one alert ended with outcome:
\* the handler of the try block is inside the loop, so all the rest
RemainingAbortsOnException(outcome, rest) ==
    IF IsException(outcome) THEN <<>> ELSE rest

RemainingAlerts(outcome, rest) == rest

\* the for loop of _check_alerts_async over the alerts ids of table tbl;
\* send[i] is the outcome _send_alert_email has if it is called for alert i
RECURSIVE CheckLoop(_, _, _, _, _)
CheckLoop(ids, tbl, rows, t, send) ==
    IF ids = <<>>
    THEN [alerts |-> tbl, alerts_checked |-> 0, alerts_triggered |-> 0,
          emails_sent |-> 0, errors |-> <<>>, fired |-> {}]
    ELSE LET i == Head(ids)
             outcome == EvaluateAlert(tbl[i], rows, t, send[i])
             saved == IF Triggered(outcome)
                      THEN SaveAlert(tbl, MarkTriggered(tbl[i], t))
                      ELSE tbl
             r == CheckLoop(RemainingAlerts(outcome, Tail(ids)), saved, rows, t,
                            send)
         IN  [alerts |-> r.alerts,
              alerts_checked |-> r.alerts_checked + 1,
              alerts_triggered |->
                  r.alerts_triggered + (IF Triggered(outcome) THEN 1 ELSE 0),
              emails_sent |-> r.emails_sent + (IF outcome = "sent" THEN 1 ELSE 0),
              errors |-> (IF IsException(outcome) THEN <<i>> ELSE <<>>) \o r.errors,
              fired |-> r.fired \cup (IF Dispatched(outcome) THEN {i} ELSE {})]

\* bookkeeping of dispatches: the alerts in fired had _send_alert_email
\* called for them at instant t; the last two instants are kept per alert
DispatchesNext(log, fired, t) ==
    [i \in 1..MaxAlerts |->
        IF i \in fired
        THEN IF log[i] = <<>> THEN <<t>> ELSE <<log[i][Len(log[i])], t>>
        ELSE log[i]]

\* the effective spread the calculator reports for a token at instant t
SpreadOf(rows, token_id, t) ==
    LET bp == CalculateBestPrices(GetLatestForToken(rows, token_id),
                                  StalenessThresholdSeconds, t)
    IN  IF bp.raised = "none" THEN bp.effective_spread ELSE None

\* a count that stops at 2: 2 stands for twice or more
Saturate(n) == IF n > 2 THEN 2 ELSE n

\* bookkeeping of below_fires: the count of an alert restarts whenever the
\* effective spread of its token is not below its threshold
BelowFiresNext(tbl, rows, t, fired) ==
    LET spread_of == [token_id \in TokenIds |-> SpreadOf(rows, token_id, t)]
    IN
    [i \in 1..MaxAlerts |->
        IF i <= Len(tbl)
           /\ spread_of[tbl[i].token_id] # None
           /\ spread_of[tbl[i].token_id][1] < tbl[i].threshold_pct
        THEN IF i \in fired THEN Saturate(below_fires[i] + 1) ELSE below_fires[i]
        ELSE 0]

RequestThresholds == {20000}            \* 2.00 %
RequestCooldowns == {1}                 \* hours
RequestSymbols == {"USDY", "usdy", "OUSG", "NOPE"}
RequestEmails == {"a@b.co", "not-an-email"}
\* the quotes the feed of each venue may return for a tradable token (the
\* second feed may return a quote with a bid of 0)
VenueQuotes == <<{[bid |-> 99, ask |-> 101], [bid |-> 100, ask |-> 101]},
                 {[bid |-> 100, ask |-> 101], [bid |-> 0, ask |-> 100]}>>

\* create_default_registry: one feed per venue, and what each feed does
Registries ==
    {[v \in 1..Len(VenueQuotes) |->
         [venue |-> v, supports |-> TRUE, kind |-> k[v],
          bid |-> q[v].bid, ask |-> q[v].ask]] :
        k \in [1..Len(VenueQuotes) -> FeedKinds],
        q \in {f \in [1..Len(VenueQuotes) -> UNION {VenueQuotes[v] : v \in Venues}] :
                  \A v \in Venues : f[v] \in VenueQuotes[v]}}

\* the lists of quotes fetch_all_quotes can return to the price-fetch cycle
FetchedQuoteLists == {FetchAllQuotes(registry) : registry \in Registries}

Init ==
    /\ now = 0
    /\ IdleSys /\ IdleFetch /\ IdleView /\ IdleSpread
    /\ snapshots = <<>> /\ max_staleness_seconds = StalenessThresholdSeconds
    /\ best = NoCall /\ stale = NoStale
    /\ alert = IdleAlert /\ call = NoPolicyCall /\ marked = None

\* mutant: the email validated before the token is looked up
CreateOutcomeEmailFirst(token, email) ==
    IF ~EmailMatches(email) THEN "InvalidEmailError"
    ELSE IF token = None THEN "TokenNotFoundError"
    ELSE IF token[1].market_type = "NAV_ONLY" THEN "TokenNotTradableError"
    ELSE "created"

\* steps 1 to 3 of CreateAlertUseCase.execute: which error leaves the call
CreateOutcome(token, email) ==
    IF token = None THEN "TokenNotFoundError"
    ELSE IF token[1].market_type = "NAV_ONLY" THEN "TokenNotTradableError"
    ELSE IF ~EmailMatches(email) THEN "InvalidEmailError"
    ELSE "created"

\* the status of the response of POST /api/alerts: 201 when execute returns,
\* the HTTPException of the handler that catches the error, and 500 for an
\* error no handler catches
CreateStatusCode(outcome) ==
    IF outcome = "created" THEN 201
    ELSE IF outcome = "TokenNotFoundError" THEN 404
    ELSE IF outcome = "InvalidEmailError" THEN 400
    ELSE 500

\* POST /api/alerts: CreateAlertUseCase.execute followed by the commit
HandleCreateAlert(symbol, email, threshold, cooldown) ==
    LET token == GetBySymbol(symbol)
        outcome == CreateOutcome(token, email)
        new == [id |-> Len(alerts) + 1, token_id |-> token[1].id,
                threshold_pct |-> threshold, status |-> "ACTIVE",
                last_triggered_at |-> None, cooldown_hours |-> cooldown]
    IN  /\ Len(alerts) < MaxAlerts
        /\ IF outcome = "created"
           THEN /\ alerts' = Append(alerts, new)
                /\ response' = [op |-> "create", outcome |-> outcome,
                                id |-> new.id,
                                status_code |-> CreateStatusCode(outcome)]
           ELSE /\ response' = [op |-> "create", outcome |-> outcome, id |-> 0,
                                status_code |-> CreateStatusCode(outcome)]
                /\ UNCHANGED alerts
        /\ below_fires' = BelowFiresNext(alerts', price_rows, now, {})
        /\ results' = NoResults
        /\ UNCHANGED <<now, tokens, cycles, price_rows, dispatches, calcVars,
                       alertVars, fetchVars, viewVars, spreadVars>>

\* a request to create an alert
CreateAlert ==
    \E symbol \in RequestSymbols, email \in RequestEmails,
       threshold \in RequestThresholds, cooldown \in RequestCooldowns :
        /\ HandleCreateAlert(symbol, email, threshold, cooldown)
        /\ UNCHANGED request

\* SqlAlertRepository.get_by_id
GetAlertById(tbl, alert_id) ==
    IF alert_id \in 1..Len(tbl) THEN Some(tbl[alert_id]) ELSE None

\* mutant: the row of the alert removed from the table
DeleteRowRemoved(tbl, alert_id) ==
    SubSeq(tbl, 1, alert_id - 1) \o SubSeq(tbl, alert_id + 1, Len(tbl))

\* SqlAlertRepository.delete on a row that exists
DeleteRow(tbl, alert_id) == [tbl EXCEPT ![alert_id].status = "DELETED"]

\* DELETE /api/alerts/{alert_id}: DeleteAlertUseCase.execute followed by the
\* commit, or the 404 of the endpoint when execute returns False
HandleDeleteAlert(alert_id) ==
    /\ IF GetAlertById(alerts, alert_id) # None
       THEN /\ alerts' = DeleteRow(alerts, alert_id)
            /\ response' = [op |-> "delete", outcome |-> "deleted",
                            id |-> alert_id, status_code |-> 204]
       ELSE /\ response' = [op |-> "delete", outcome |-> "not_found",
                            id |-> alert_id, status_code |-> 404]
            /\ UNCHANGED alerts
    /\ results' = NoResults
    /\ UNCHANGED <<now, tokens, cycles, price_rows, dispatches, below_fires,
                   calcVars, alertVars, fetchVars, viewVars, spreadVars>>

\* a request to delete an alert
DeleteAlert ==
    \E alert_id \in 1..MaxAlerts :
        HandleDeleteAlert(alert_id) /\ UNCHANGED request

\* mutant: the rows of a batch stored without building their models first
SaveBatchUnchecked(batch) == TRUE

\* SqlPriceRepository.save_batch returns: it builds the model of every
\* snapshot before it adds any, and _to_model evaluates entity.spread, which
\* raises for a non-positive bid or ask
SaveBatch(batch) ==
    \A k \in 1..Len(batch) : ~SpreadRaises(batch[k].bid, batch[k].ask)

\* _fetch_all_prices_async: quotes[t] is the list fetch_all_quotes returns
\* for token t
HandleFetchPrices(quotes) ==
    LET saved(t) == t \in DOMAIN quotes /\ SaveBatch(quotes[t])
        from(t, v) == SelectSeq(quotes[t], LAMBDA x : x.venue = v)
        row(t, v) == [token_id |-> t, venue_id |-> v,
                      bid |-> from(t, v)[1].bid, ask |-> from(t, v)[1].ask,
                      fetched_at |-> now]
    IN  /\ price_rows' =
              [t \in TokenIds |-> [v \in Venues |->
                  IF saved(t) /\ from(t, v) # <<>>
                  THEN Some(row(t, v))
                  ELSE price_rows[t][v]]]
        /\ below_fires' = BelowFiresNext(alerts, price_rows', now, {})
        /\ results' = NoResults /\ response' = NoResponse
        /\ UNCHANGED <<now, tokens, cycles, alerts, dispatches, request,
                       calcVars, alertVars, viewVars, spreadVars>>

\* the batches one price-fetch cycle may get: a list per token it fetches
FetchedBatches ==
    [{t \in TokenIds : tokens[t].is_active /\ tokens[t].market_type # "NAV_ONLY"}
        -> FetchedQuoteLists]

\* a price-fetch cycle
FetchPrices ==
    \E quotes \in FetchedBatches :
        HandleFetchPrices(quotes) /\ UNCHANGED fetchVars

\* _check_alerts_async: one whole alert-check cycle
CheckAlerts ==
    \E send \in [1..Len(alerts) -> SendOutcomes] :
        LET r == CheckLoop(GetAllActive(alerts), alerts, price_rows, now, send)
        IN  /\ alerts' = r.alerts
            /\ dispatches' = DispatchesNext(dispatches, r.fired, now)
            /\ results' =
                 [alerts_checked |-> r.alerts_checked,
                  alerts_triggered |-> r.alerts_triggered,
                  emails_sent |-> r.emails_sent,
                  errors |-> r.errors,
                  timestamp |-> Some(now)]
            /\ below_fires' = BelowFiresNext(alerts', price_rows, now, r.fired)
            /\ response' = NoResponse
            /\ UNCHANGED <<now, tokens, cycles, price_rows, request, calcVars,
                           alertVars, fetchVars, viewVars, spreadVars>>

\* the wall clock advances
SysTick ==
    /\ now < MaxCycleTime
    /\ now' = now + 1
    /\ below_fires' = BelowFiresNext(alerts, price_rows, now', {})
    /\ results' = NoResults /\ response' = NoResponse
    /\ UNCHANGED <<tokens, cycles, alerts, price_rows, dispatches, request,
                   calcVars, alertVars, fetchVars, viewVars, spreadVars>>

Next == CreateAlert \/ DeleteAlert \/ FetchPrices \/ CheckAlerts \/ SysTick

Spec == Init /\ [][Next]_vars

\* -------------------------------------------------- claims on the cycles

\* C9: once a notification has been dispatched for an alert at time t, no
\* further notification is dispatched for that alert until the clock is past
\* t + cooldown_hours.
C9_CooldownAcrossCycles ==
    \A i \in 1..Len(alerts) :
        Len(dispatches[i]) = 2 =>
            dispatches[i][2] > dispatches[i][1]
                                   + alerts[i].cooldown_hours * TicksPerHour

\* C10: across the evaluations of one alert during which the effective spread
\* stays below the threshold the whole time, the alert fires at most once.
C10_FiresOncePerCrossing ==
    \A i \in 1..MaxAlerts : below_fires[i] <= 1

\* C11: whenever a cycle found should_trigger true for an alert and called
\* the notification dispatch, the alert row carries a last_triggered_at that
\* is not earlier than that dispatch, whether or not the send succeeded.
C11_MarkedAfterDispatch ==
    \A i \in 1..Len(alerts) : \A k \in 1..Len(dispatches[i]) :
        /\ alerts[i].last_triggered_at # None
        /\ alerts[i].last_triggered_at[1] >= dispatches[i][k]

\* the alerts whose evaluation in the cycle just run raised an exception
Raising ==
    {i \in 1..Len(alerts) :
        /\ alerts[i].status = "ACTIVE"
        /\ IsException(EvaluateAlert(alerts[i], price_rows, now, "AttributeError"))}

\* C12: in the cycle just run, alerts_checked is the number of ACTIVE alerts
\* and errors names exactly the alerts whose evaluation raised: an exception
\* in one alert is recorded and every other alert, the later ones included,
\* is evaluated as it would be alone.
C12_ErrorIsolation ==
    results.timestamp # None =>
        /\ results.alerts_checked = Len(GetAllActive(alerts))
        /\ {results.errors[k] : k \in 1..Len(results.errors)} = Raising
        /\ \A i \in Raising :
               EvaluateAlert(alerts[i], price_rows, now, "AttributeError")
                   = "AttributeError"
               => \E k \in 1..Len(dispatches[i]) : dispatches[i][k] = now

\* a cycle over two alerts: the first one raised, and the second one was
\* still evaluated up to its own dispatch
C12_Witness ==
    /\ results.timestamp # None
    /\ results.alerts_checked = 2
    /\ results.errors = <<1, 2>>
    /\ \E k \in 1..Len(dispatches[2]) : dispatches[2][k] = now

\* ================================================================= SpecView
\* GetAggregatedPricesUseCase.execute applied to every bounded price table.

\* the use case as the endpoints build it: PriceCalculator() and the default
\* max_staleness_seconds of the use case
UseCaseMaxStaleness == 60

\* the rows of the price table: they were written through _to_model, which
\* evaluates entity.spread, so their prices are positive
ViewBids == {100, 101}
ViewAsk == 102
ViewQuotes == [bid : ViewBids, ask : {ViewAsk}, fetched_at : 0..MaxFetchedAt]
ViewSymbols == {"USDY", "usdy", "NOPE"}
MaxViewTime == MaxFetchedAt + 1

\* the row of venue v in the venues table, with or without a trade URL template
VenueRow(v, template) ==
    [id |-> v, name |-> "Exchange " \o ToString(v), trade_url_template |-> template]

\* the venues table: for each venue id a snapshot can carry, no row, a row
\* without a trade URL template or a row with one
VenueRowKinds == {"missing", "no_template", "template"}
VenueTables ==
    {[v \in 1..MaxSnapshots |->
         IF k[v] = "missing" THEN None
         ELSE Some(VenueRow(v, IF k[v] = "template"
                               THEN Some("https://example.com/trade/")
                               ELSE None))] :
        k \in [1..MaxSnapshots -> VenueRowKinds]}

\* mutant: a stale snapshot skipped whatever the caller asked for
SkipsStaleAlways(is_stale, include_stale) == is_stale

\* _build_venue_dtos: if is_stale and not include_stale: continue
SkipsStale(is_stale, include_stale) == is_stale /\ ~include_stale

\* SqlVenueRepository.get_by_id
GetVenueById(rows, venue_id) ==
    IF venue_id \in DOMAIN rows THEN rows[venue_id] ELSE None

\* step 3 of execute: the venues found for the venue ids of the snapshots
VenuesById(snaps, rows) ==
    [v \in {snaps[i].venue_id : i \in 1..Len(snaps)}
            \cap {w \in DOMAIN rows : GetVenueById(rows, w) # None}
        |-> GetVenueById(rows, v)[1]]

\* venues_by_id.get(venue_id)
DictGet(venues_by_id, venue_id) ==
    IF venue_id \in DOMAIN venues_by_id THEN Some(venues_by_id[venue_id]) ELSE None

\* Venue.get_trade_url: the template with the symbol put in its placeholder
\* (a template is written as the text before its placeholder)
GetTradeUrl(venue, token_symbol) ==
    IF venue.trade_url_template # None /\ venue.trade_url_template[1] # ""
    THEN Some(venue.trade_url_template[1] \o token_symbol)
    ELSE None

\* mutant: a venue without metadata shown without its id
DisplayNameAnonymous(venue, venue_id) ==
    IF venue # None THEN venue[1].name ELSE "Venue"

\* venue.name if venue else f"Venue {venue_id}"
DisplayName(venue, venue_id) ==
    IF venue # None THEN venue[1].name ELSE "Venue " \o ToString(venue_id)

\* the loop of _build_venue_dtos: one entry per snapshot that is not skipped,
\* in input order; t is the clock the is_stale calls of the loop read
RECURSIVE VenueDtos(_, _, _, _, _, _)
VenueDtos(snaps, venues_by_id, base_symbol, max_age_seconds, include_stale, t) ==
    IF snaps = <<>> THEN <<>>
    ELSE LET snapshot == Head(snaps)
             is_stale == IsStale(snapshot, max_age_seconds, t)
             venue == DictGet(venues_by_id, snapshot.venue_id)
             rest == VenueDtos(Tail(snaps), venues_by_id, base_symbol,
                               max_age_seconds, include_stale, t)
         IN  IF SkipsStale(is_stale, include_stale) THEN rest
             ELSE <<[venue_name |-> DisplayName(venue, snapshot.venue_id),
                     venue_id |-> snapshot.venue_id, bid |-> snapshot.bid,
                     ask |-> snapshot.ask, timestamp |-> snapshot.fetched_at,
                     is_stale |-> is_stale,
                     trade_url |-> IF venue # None
                                   THEN GetTradeUrl(venue[1], base_symbol)
                                   ELSE None]>> \o rest

\* mutant: entries with equal bids end up in reverse input order
RECURSIVE InsertBeforeEqual(_, _)
InsertBeforeEqual(sorted, v) ==
    IF sorted = <<>> THEN <<v>>
    ELSE IF Head(sorted).bid > v.bid
         THEN <<Head(sorted)>> \o InsertBeforeEqual(Tail(sorted), v)
         ELSE <<v>> \o sorted

\* the place list.sort(key=bid, reverse=True) gives v among the entries
\* before it: after every entry whose bid is not lower (the sort is stable)
RECURSIVE InsertByBid(_, _)
InsertByBid(sorted, v) ==
    IF sorted = <<>> THEN <<v>>
    ELSE IF Head(sorted).bid >= v.bid
         THEN <<Head(sorted)>> \o InsertByBid(Tail(sorted), v)
         ELSE <<v>> \o sorted

\* venue_dtos.sort(key=lambda v: v.bid, reverse=True)
RECURSIVE SortByBid(_)
SortByBid(dtos) ==
    IF dtos = <<>> THEN <<>>
    ELSE InsertByBid(SortByBid(SubSeq(dtos, 1, Len(dtos) - 1)), dtos[Len(dtos)])

\* _build_venue_dtos
BuildVenueDtos(snaps, venues_by_id, base_symbol, max_age_seconds, include_stale, t) ==
    SortByBid(VenueDtos(snaps, venues_by_id, base_symbol, max_age_seconds,
                        include_stale, t))

\* _build_best_price_dto: the venues of the best-bid/best-ask summary
BuildBestPriceDto(best_prices, venues_by_id) ==
    LET named(side) ==
            IF side = None THEN None
            ELSE Some(DisplayName(DictGet(venues_by_id, side[1].venue_id),
                                  side[1].venue_id))
        id_of(side) == IF side = None THEN None ELSE Some(side[1].venue_id)
    IN  [best_bid_venue |-> named(best_prices.best_bid),
         best_bid_venue_id |-> id_of(best_prices.best_bid),
         best_ask_venue |-> named(best_prices.best_ask),
         best_ask_venue_id |-> id_of(best_prices.best_ask)]

\* num_fresh = sum(1 for s in snapshots if not s.is_stale(...))
NumFresh(snaps, max_age_seconds, t) ==
    Len(SelectSeq(snaps, LAMBDA s : ~IsStale(s, max_age_seconds, t)))

\* mutant: the price data looked at before the token
ExecuteOutcomeDataFirst(token, snaps) ==
    IF snaps = <<>> THEN "NoPriceDataError"
    ELSE IF token = None THEN "TokenNotFoundError"
    ELSE "view"

\* steps 1 and 2 of execute: which error leaves the call, if any
ExecuteOutcome(token, snaps) ==
    IF token = None THEN "TokenNotFoundError"
    ELSE IF snaps = <<>> THEN "NoPriceDataError"
    ELSE "view"

\* execute(base_symbol, include_stale=...) on the rows snaps; t_calc, t_build
\* and t_count are the clock read by the is_stale calls of the calculator,
\* of _build_venue_dtos and of the count of fresh venues
Execute(symbol, include_stale, snaps, rows, t_calc, t_build, t_count) ==
    LET token == GetBySymbol(symbol)
        outcome == ExecuteOutcome(token, snaps)
        venues_by_id == VenuesById(snaps, rows)
        best_prices == CalculateBestPrices(snaps, DefaultMaxStaleness, t_calc)
        venue_dtos == BuildVenueDtos(snaps, venues_by_id, symbol,
                                     UseCaseMaxStaleness, include_stale, t_build)
        failed(o, reads) == [NoView EXCEPT !.called = TRUE, !.outcome = o,
                                           !.price_reads = reads]
    IN  IF outcome = "TokenNotFoundError" THEN failed(outcome, 0)
        ELSE IF outcome = "NoPriceDataError" THEN failed(outcome, 1)
        ELSE IF best_prices.raised # "none" THEN failed(best_prices.raised, 1)
        ELSE [called |-> TRUE, outcome |-> "view", price_reads |-> 1,
              best_prices |-> BuildBestPriceDto(best_prices, venues_by_id),
              venues |-> venue_dtos, num_venues |-> Len(venue_dtos),
              num_fresh_venues |-> NumFresh(snaps, UseCaseMaxStaleness, t_count),
              at_build |-> t_build, at_count |-> t_count]

InitView ==
    /\ now = 0
    /\ snapshots \in SnapshotListsOf(ViewQuotes)
    /\ max_staleness_seconds = DefaultMaxStaleness
    /\ query \in [symbol : ViewSymbols, include_stale : BOOLEAN]
    /\ venue_rows \in VenueTables
    /\ view = NoView
    /\ best = NoCall /\ stale = NoStale
    /\ alert = IdleAlert /\ call = NoPolicyCall /\ marked = None
    /\ IdleSys /\ IdleFetch /\ IdleSpread

\* one call of execute; the clock may advance while the call runs
ExecuteView ==
    \E t_build, t_count \in now..(now + 1) :
        LET v == Execute(query.symbol, query.include_stale, snapshots,
                         venue_rows, now, t_build, t_count)
        IN  /\ t_build <= t_count /\ t_count <= MaxViewTime
            /\ view' = v
            /\ best' = IF v.outcome = "view"
                       THEN [called |-> TRUE, at |-> now,
                             result |-> CalculateBestPrices(
                                            snapshots, DefaultMaxStaleness, now)]
                       ELSE NoCall
            /\ now' = IF v.outcome = "view" THEN t_count ELSE now
            /\ UNCHANGED <<snapshots, max_staleness_seconds, stale, query,
                           venue_rows, alertVars, sysVars, fetchVars, spreadVars>>

\* the wall clock advances between two calls
ViewTick ==
    /\ now < MaxViewTime
    /\ now' = now + 1
    /\ view' = NoView /\ best' = NoCall
    /\ UNCHANGED <<snapshots, max_staleness_seconds, stale, query,
                   venue_rows, alertVars, sysVars, fetchVars, spreadVars>>

NextView == ExecuteView \/ ViewTick

SpecView == InitView /\ [][NextView]_vars

\* ------------------------------------------------- claims on the use case

\* C17: execute fails with TokenNotFoundError exactly when the symbol
\* resolves to no token, and then no price data was read; it fails with
\* NoPriceDataError exactly when the token exists and the latest-snapshot
\* list is empty; in every other case it returns a view.
C17_ErrorPaths ==
    view.called =>
        /\ view.outcome = "TokenNotFoundError" <=> GetBySymbol(query.symbol) = None
        /\ view.outcome = "TokenNotFoundError" => view.price_reads = 0
        /\ view.outcome = "NoPriceDataError"
               <=> (GetBySymbol(query.symbol) # None /\ snapshots = <<>>)
        /\ view.outcome \in {"TokenNotFoundError", "NoPriceDataError", "view"}

\* an unknown symbol with an empty price list is reported as TokenNotFound
C17_Witness ==
    /\ view.called /\ view.outcome = "TokenNotFoundError"
    /\ snapshots = <<>> /\ view.price_reads = 0

\* C18: in a returned view, num_fresh_venues equals the venues_count of the
\* calculator call of the same execute.
C18_FreshCountMatches ==
    (view.called /\ view.outcome = "view") =>
        view.num_fresh_venues = best.result.venues_count

\* the entries of the view built from the snapshots in the index set idx
EntriesOf(idx) ==
    {k \in 1..Len(view.venues) :
        \E i \in idx : view.venues[k].venue_id = snapshots[i].venue_id}

\* C19: every entry of the per-venue list carries the is_stale of its
\* snapshot under the threshold of the use case; with include_stale = false
\* the list has exactly one entry per non-stale snapshot and num_venues is
\* their number, with include_stale = true one entry per input snapshot.
C19_VenueList ==
    (view.called /\ view.outcome = "view") =>
        LET stale_now(i) == (view.at_build - snapshots[i].fetched_at)
                                * SecondsPerTick > UseCaseMaxStaleness
            listed == {i \in 1..Len(snapshots) :
                          query.include_stale \/ ~stale_now(i)}
        IN  /\ view.num_venues = Len(view.venues)
            /\ Len(view.venues) = Cardinality(listed)
            /\ \A i \in listed : \E k \in 1..Len(view.venues) :
                   /\ view.venues[k].venue_id = snapshots[i].venue_id
                   /\ view.venues[k].bid = snapshots[i].bid
                   /\ view.venues[k].is_stale = stale_now(i)

\* a stale snapshot is listed and marked when include_stale is true, next to
\* a fresh one
C19_Witness ==
    /\ view.called /\ view.outcome = "view" /\ query.include_stale
    /\ Len(view.venues) = 2
    /\ \E k, l \in 1..2 : view.venues[k].is_stale /\ ~view.venues[l].is_stale

\* the position in the input list of the snapshot of entry k of the view
InputIndex(k) ==
    CHOOSE i \in 1..Len(snapshots) : snapshots[i].venue_id = view.venues[k].venue_id

\* C20: the per-venue list is ordered by bid descending, and entries with
\* equal bids are in the order of their snapshots in the input.
C20_SortedByBid ==
    (view.called /\ view.outcome = "view") =>
        \A k, l \in 1..Len(view.venues) :
            k < l =>
                /\ view.venues[k].bid >= view.venues[l].bid
                /\ view.venues[k].bid = view.venues[l].bid
                       => InputIndex(k) < InputIndex(l)

\* two snapshots with equal bids, the one of the second venue first in the
\* input: the view lists them in input order
C20_Witness ==
    /\ view.called /\ view.outcome = "view" /\ Len(view.venues) = 2
    /\ view.venues[1].bid = view.venues[2].bid
    /\ InputIndex(1) < InputIndex(2)
    /\ snapshots[1].venue_id > snapshots[2].venue_id

\* the snapshots of the input whose venue has no row in the venues table
WithoutMetadata ==
    {i \in 1..Len(snapshots) : GetVenueById(venue_rows, snapshots[i].venue_id) = None}

\* C21: when the venues table has no row for the venue of a snapshot, execute
\* still returns a view; the entry of that venue in the per-venue list, listed
\* or skipped as for any other venue, has the name "Venue {id}" and no trade
\* URL; the summary names that venue "Venue {id}" when it is the best bid or
\* the best ask; and with include_stale every snapshot has its entry.
C21_MissingVenueMetadata ==
    (view.called /\ GetBySymbol(query.symbol) # None /\ WithoutMetadata # {}) =>
        /\ view.outcome = "view"
        /\ query.include_stale => Len(view.venues) = Len(snapshots)
        /\ \A i \in WithoutMetadata :
            LET id == snapshots[i].venue_id
                synthetic == "Venue " \o ToString(id)
                is_stale == (view.at_build - snapshots[i].fetched_at)
                                * SecondsPerTick > UseCaseMaxStaleness
            IN  /\ (query.include_stale \/ ~is_stale)
                       => \E k \in 1..Len(view.venues) : view.venues[k].venue_id = id
                /\ \A k \in 1..Len(view.venues) :
                       view.venues[k].venue_id = id =>
                           /\ view.venues[k].venue_name = synthetic
                           /\ view.venues[k].trade_url = None
                /\ view.best_prices.best_bid_venue_id = Some(id)
                       => view.best_prices.best_bid_venue = Some(synthetic)
                /\ view.best_prices.best_ask_venue_id = Some(id)
                       => view.best_prices.best_ask_venue = Some(synthetic)

\* a view of two snapshots: the venue without a row is the best bid and is
\* listed under its synthetic name next to a venue that has a row
C21_Witness ==
    /\ view.called /\ view.outcome = "view" /\ Len(view.venues) = 2
    /\ Cardinality(WithoutMetadata) = 1
    /\ \E i \in WithoutMetadata :
           /\ view.best_prices.best_bid_venue_id = Some(snapshots[i].venue_id)
           /\ view.best_prices.best_bid_venue
                  = Some("Venue " \o ToString(snapshots[i].venue_id))
    /\ \E k \in 1..2 : view.venues[k].trade_url # None

\* ============================================================= SpecRequests
\* The alert endpoints applied to the alert table, one request after the
\* other; every request and its response are recorded.

\* POST /api/alerts
PostAlertRequest ==
    \E symbol \in RequestSymbols, email \in RequestEmails,
       threshold \in ThresholdChoices, cooldown \in CooldownChoices :
        /\ HandleCreateAlert(symbol, email, threshold, cooldown)
        /\ request' = [symbol |-> symbol, email |-> email, alert_id |-> 0]

\* DELETE /api/alerts/{alert_id}, for the ids of the table and one more
DeleteAlertRequest ==
    \E alert_id \in 1..(MaxAlerts + 1) :
        /\ HandleDeleteAlert(alert_id)
        /\ request' = [symbol |-> "", email |-> "", alert_id |-> alert_id]

\* GET /api/alerts/{alert_id}: the status of the alert, or 404
GetAlertRequest ==
    \E alert_id \in 1..(MaxAlerts + 1) :
        LET found == GetAlertById(alerts, alert_id)
        IN  /\ request' = [symbol |-> "", email |-> "", alert_id |-> alert_id]
            /\ response' = IF found = None
                           THEN [op |-> "get", outcome |-> "not_found",
                                 id |-> alert_id, status_code |-> 404]
                           ELSE [op |-> "get", outcome |-> found[1].status,
                                 id |-> alert_id, status_code |-> 200]
            /\ UNCHANGED <<now, tokens, cycles, alerts, price_rows, dispatches,
                           below_fires, results, calcVars, alertVars, fetchVars, viewVars,
                           spreadVars>>

NextRequests == PostAlertRequest \/ DeleteAlertRequest \/ GetAlertRequest

SpecRequests == Init /\ [][NextRequests]_vars

\* ---------------------------------------------- claims on the alert requests

\* C22: a create request is rejected with TokenNotFound when the symbol is
\* unknown, else with TokenNotTradable when the token is NAV_ONLY, else with
\* InvalidEmail when the email is malformed, and a rejected request leaves
\* the alert table as it was; any other request adds exactly one alert, for
\* the token of the request, with status ACTIVE and last_triggered_at None.
C22_CreateValidation ==
    [][response'.op = "create" =>
        LET hits == {t \in TokenIds : tokens[t].symbol = Upper(request'.symbol)}
            unknown == hits = {}
            nav_only == \E t \in hits : tokens[t].market_type = "NAV_ONLY"
            malformed == request'.email # "a@b.co"
            outcome == response'.outcome
        IN  /\ unknown => outcome = "TokenNotFoundError"
            /\ (~unknown /\ nav_only) => outcome = "TokenNotTradableError"
            /\ (~unknown /\ ~nav_only /\ malformed) => outcome = "InvalidEmailError"
            /\ (unknown \/ nav_only \/ malformed) => alerts' = alerts
            /\ ~(unknown \/ nav_only \/ malformed) =>
                   /\ outcome = "created"
                   /\ Len(alerts') = Len(alerts) + 1
                   /\ SubSeq(alerts', 1, Len(alerts)) = alerts
                   /\ alerts'[Len(alerts')].status = "ACTIVE"
                   /\ alerts'[Len(alerts')].last_triggered_at = None
                   /\ alerts'[Len(alerts')].token_id \in hits
    ]_vars

\* a request for the NAV_ONLY token with a malformed email is answered with
\* TokenNotTradable, the table holding the alert of an earlier request
C22_Witness ==
    /\ response.op = "create" /\ response.outcome = "TokenNotTradableError"
    /\ request.symbol = "OUSG" /\ request.email = "not-an-email"
    /\ Len(alerts) = 1 /\ alerts[1].status = "ACTIVE"

\* ================================================================= SpecSeed
\* The running system on a database that is seeded again: alert requests,
\* price-fetch cycles, alert-check cycles and runs of the seed script.

\* the tokens table as migration 002 leaves the rows that existed before it:
\* market_type is filled with the server default
TokensAfterMigration ==
    [t \in DOMAIN Tokens |-> [Tokens[t] EXCEPT !.market_type = "TRADABLE"]]

InitSeed ==
    /\ now = 0
    /\ tokens \in {Tokens, TokensAfterMigration}
    /\ alerts = <<>>
    /\ price_rows = [t \in 1..2 |-> [v \in Venues |-> None]]
    /\ dispatches = [i \in 1..MaxAlerts |-> <<>>]
    /\ below_fires = [i \in 1..MaxAlerts |-> 0]
    /\ results = NoResults /\ request = NoRequest /\ response = NoResponse
    /\ cycles = NoCycles
    /\ IdleFetch /\ IdleView /\ IdleSpread
    /\ snapshots = <<>> /\ max_staleness_seconds = StalenessThresholdSeconds
    /\ best = NoCall /\ stale = NoStale
    /\ alert = IdleAlert /\ call = NoPolicyCall /\ marked = None

\* seed_tokens: the market_type of every token that exists is set to the one
\* of the seed data; its alerts and price snapshots are left as they are
SeedTokens ==
    /\ tokens' = [t \in DOMAIN tokens |->
                     [tokens[t] EXCEPT !.market_type = Tokens[t].market_type]]
    /\ results' = NoResults /\ response' = NoResponse
    /\ UNCHANGED <<now, cycles, alerts, price_rows, dispatches, below_fires,
                   request, calcVars, alertVars, fetchVars, viewVars, spreadVars>>

NextSeed == CreateAlert \/ FetchPrices \/ CheckAlerts \/ SeedTokens

SpecSeed == InitSeed /\ [][NextSeed]_vars

C24_LogicalDelete ==
    [][/\ response'.op = "delete" =>
            IF request'.alert_id \in 1..Len(alerts)
            THEN /\ response'.outcome = "deleted"
                 /\ Len(alerts') = Len(alerts)
                 /\ \A i \in 1..Len(alerts) :
                        alerts'[i] = IF i = request'.alert_id
                                     THEN [alerts[i] EXCEPT !.status = "DELETED"]
                                     ELSE alerts[i]
            ELSE /\ response'.outcome = "not_found"
                 /\ response'.status_code = 404
                 /\ alerts' = alerts
       /\ \A i \in 1..Len(alerts) :
            alerts[i].status = "DELETED" =>
                /\ i <= Len(alerts') /\ alerts'[i].status = "DELETED"
                /\ \A k \in 1..Len(GetAllActive(alerts')) :
                       GetAllActive(alerts')[k] # i
                /\ (response'.op = "get" /\ request'.alert_id = i)
                       => response'.outcome = "DELETED"
    ]_vars

\* the first of two alerts was deleted and is then returned by a get request,
\* the second one still being active
C24_Witness ==
    /\ response.op = "get" /\ request.alert_id = 1
    /\ response.outcome = "DELETED" /\ response.status_code = 200
    /\ Len(alerts) = 2 /\ GetAllActive(alerts) = <<2>>

\* ================================================================ SpecFrame
\* The calculator and the policy called on one snapshot list and one alert,
\* between calls of the mutation methods of the alert.

FrameQuotes == [bid : {100, 101}, ask : {102}, fetched_at : {0}]
MaxFrameTime == MaxCycleTime + 1

InitFrame ==
    /\ now = 0
    /\ snapshots \in SnapshotListsOf(FrameQuotes)
    /\ max_staleness_seconds = DefaultMaxStaleness
    /\ best = NoCall /\ stale = NoStale
    /\ alert \in [id : {1}, token_id : {1}, threshold_pct : {20000},
                  status : {"ACTIVE", "PAUSED", "DELETED"},
                  last_triggered_at : {None}, cooldown_hours : {1}]
    /\ call = NoPolicyCall
    /\ marked = None
    /\ IdleSys /\ IdleFetch /\ IdleView /\ IdleSpread

\* the wall clock advances; the results of the earlier calls are dropped
FrameTick ==
    /\ now < MaxFrameTime
    /\ now' = now + 1
    /\ best' = NoCall
    /\ call' = NoPolicyCall
    /\ UNCHANGED <<snapshots, max_staleness_seconds, stale, alert, marked,
                   sysVars, fetchVars, viewVars, spreadVars>>

NextFrame ==
    \/ Calculate \/ CallShouldTrigger
    \/ DoMarkTriggered \/ DoPause \/ DoActivate \/ FrameTick

SpecFrame == InitFrame /\ [][NextFrame]_vars

\* C25: a call of calculate_best_prices or of should_trigger leaves the
\* snapshot list, every snapshot in it and every field of the alert as they
\* were; whenever the alert changes, either only its last_triggered_at has
\* changed, to the instant of a mark_triggered call, or only its status has
\* changed, to PAUSED or to ACTIVE.
C25_NoSideEffects ==
    [][/\ ((best'.called /\ best' # best)
              \/ (call'.op = "should_trigger" /\ call' # call)) =>
            /\ snapshots' = snapshots
            /\ alert' = alert
       /\ snapshots' = snapshots
       /\ alert' # alert =>
            \/ /\ alert' = [alert EXCEPT !.last_triggered_at = Some(now)]
               /\ marked' = Some(now)
            \/ alert' = [alert EXCEPT !.status = "PAUSED"]
            \/ alert' = [alert EXCEPT !.status = "ACTIVE"]
    ]_vars

\* both functions were called on a list of two snapshots and an alert that
\* was marked and paused before
C25_Witness ==
    /\ best.called /\ best.result.venues_count = 2
    /\ call.op = "should_trigger"
    /\ alert.status = "PAUSED" /\ alert.last_triggered_at # None

\* ------------------------------------------- overlapping alert-check cycles
\* Celery beat queues check_alerts every alert_check_interval_seconds and no
\* lock keeps a worker from starting a cycle while another one runs: two runs
\* of _check_alerts_async, each with a session of its own, interleaved with
\* the requests and with the price-fetch cycle.

CycleIds == 1..2

\* _check_alerts_async up to the for loop: get_all_active hands the cycle the
\* ACTIVE alerts as entities of its own
LoadAlerts(c) ==
    LET ids == GetAllActive(alerts)
    IN  /\ cycles[c].pc = "idle"
        /\ cycles' = [cycles EXCEPT
                         ![c] = [pc |-> "loop",
                                 todo |-> [k \in 1..Len(ids) |-> alerts[ids[k]]],
                                 pending |-> <<>>, fired |-> {},
                                 results |-> [NoResults EXCEPT
                                                 !.timestamp = Some(now)]]]
        /\ results' = NoResults /\ response' = NoResponse
        /\ UNCHANGED <<now, tokens, alerts, price_rows, dispatches, below_fires,
                       request, calcVars, alertVars, fetchVars, viewVars,
                       spreadVars>>

\* one pass of the for loop: the entity the cycle loaded is evaluated against
\* the rows the tables hold now; a save stays in the session of the cycle
EvaluateNext(c) ==
    \E send \in SendOutcomes :
        LET a == Head(cycles[c].todo)
            outcome == EvaluateAlert(a, price_rows, now, send)
            fired == IF Dispatched(outcome) THEN {a.id} ELSE {}
            r == cycles[c].results
        IN  /\ cycles[c].pc = "loop"
            /\ cycles[c].todo # <<>>
            /\ cycles' = [cycles EXCEPT
                  ![c].todo = Tail(@),
                  ![c].pending = IF Triggered(outcome)
                                 THEN Append(@, MarkTriggered(a, now))
                                 ELSE @,
                  ![c].fired = @ \cup fired,
                  ![c].results =
                      [r EXCEPT
                          !.alerts_checked = @ + 1,
                          !.alerts_triggered =
                              @ + (IF Triggered(outcome) THEN 1 ELSE 0),
                          !.emails_sent = @ + (IF outcome = "sent" THEN 1 ELSE 0),
                          !.errors = IF IsException(outcome)
                                     THEN Append(@, a.id)
                                     ELSE @]]
            /\ dispatches' = DispatchesNext(dispatches, fired, now)
            /\ below_fires' = BelowFiresNext(alerts, price_rows, now, fired)
            /\ results' = NoResults /\ response' = NoResponse
            /\ UNCHANGED <<now, tokens, alerts, price_rows, request, calcVars,
                           alertVars, fetchVars, viewVars, spreadVars>>

\* the rows of table tbl after the saves a session holds are committed
RECURSIVE SaveAll(_, _)
SaveAll(tbl, saves) ==
    IF saves = <<>> THEN tbl
    ELSE SaveAll(SaveAlert(tbl, Head(saves)), Tail(saves))

\* the end of the for loop: session.commit() and the return of the results
CommitCycle(c) ==
    /\ cycles[c].pc = "loop"
    /\ cycles[c].todo = <<>>
    /\ alerts' = SaveAll(alerts, cycles[c].pending)
    /\ results' = cycles[c].results
    /\ cycles' = [cycles EXCEPT ![c] = IdleCycle]
    /\ below_fires' = BelowFiresNext(alerts', price_rows, now, {})
    /\ response' = NoResponse
    /\ UNCHANGED <<now, tokens, price_rows, dispatches, request, calcVars,
                   alertVars, fetchVars, viewVars, spreadVars>>

CheckAlertsStep ==
    \E c \in CycleIds : LoadAlerts(c) \/ EvaluateNext(c) \/ CommitCycle(c)

NextOverlap == CreateAlert \/ DeleteAlert \/ FetchPrices \/ CheckAlertsStep

SpecOverlap == Init /\ [][NextOverlap]_vars

\* C26: when two alert-check cycles overlap and an alert is eligible for
\* both, the alert is notified by at most one of them within one cooldown
\* window: no alert is dispatched by both of two cycles that run side by side.
C26_OverlapSingleDispatch ==
    \A i \in 1..Len(alerts) :
        ~(i \in cycles[1].fired /\ i \in cycles[2].fired)

\* C27: once the delete of an alert is committed no alert-check cycle, not
\* even one that loaded the alert before the delete, dispatches a notification
\* for it, updates its last_triggered_at or returns its status to ACTIVE.
C27_DeletedStaysQuiet ==
    [][\A i \in 1..Len(alerts) :
          alerts[i].status = "DELETED"
              => /\ dispatches'[i] = dispatches[i]
                 /\ alerts'[i].last_triggered_at = alerts[i].last_triggered_at
                 /\ alerts'[i].status # "ACTIVE"]_vars

\* ------------------------------------------------- storing fetched quotes
\* The price-fetch cycle with the batches it handed to save_batch on record.

\* a price-fetch cycle; fetched keeps the lists fetch_all_quotes returned
StoreQuotes ==
    \E quotes \in FetchedBatches :
        /\ HandleFetchPrices(quotes)
        /\ fetched' = [called |-> TRUE, quotes |-> quotes]
        /\ UNCHANGED feeds

NextStore == StoreQuotes \/ SysTick

SpecStore == Init /\ [][NextStore]_vars

\* a quote of the batch has a non-positive bid or ask
HasNonPositive(batch) ==
    \E k \in 1..Len(batch) : batch[k].bid <= 0 \/ batch[k].ask <= 0

\* C28: every stored price snapshot has bid > 0 and ask > 0, and a price-fetch
\* cycle whose batch for a token holds a quote with a non-positive bid or ask
\* stores none of the snapshots of that batch.
C28_StoredSnapshotsPositive ==
    [][\A t \in TokenIds :
          /\ \A v \in Venues :
                price_rows'[t][v] # None
                    => price_rows'[t][v][1].bid > 0 /\ price_rows'[t][v][1].ask > 0
          /\ (/\ fetched'.called
              /\ t \in DOMAIN fetched'.quotes
              /\ HasNonPositive(fetched'.quotes[t]))
                 => price_rows'[t] = price_rows[t]]_vars

\* a batch with a quote of venue 1 and a quote with a bid of 0 was handed to
\* save_batch one tick after a row of venue 1 was stored: the row is the old one
C28_Witness ==
    /\ now = 1
    /\ fetched.called
    /\ HasNonPositive(fetched.quotes[1])
    /\ \E k \in 1..Len(fetched.quotes[1]) :
          fetched.quotes[1][k].venue = 1 /\ fetched.quotes[1][k].bid > 0
    /\ price_rows[1][1] # None
    /\ price_rows[1][1][1].fetched_at = 0
    /\ price_rows[1][2] # None

\* ------------------------------------------- errors of the create endpoint

\* the application errors CreateAlertUseCase.execute raises
CreateErrors == {"TokenNotFoundError", "TokenNotTradableError", "InvalidEmailError"}

\* C29: every application error CreateAlertUseCase raises is answered by
\* POST /api/alerts with a client-error (4xx) status; none of them leaves the
\* endpoint as an unhandled error.
C29_CreateErrorsAreClientErrors ==
    (response.op = "create" /\ response.outcome \in CreateErrors)
        => response.status_code \in 400..499

====
